---- MODULE Spec2Model ----
(***************************************************************************)
(* chomikai: OAuth2 session handling and the /presentations event stream   *)
(* (routers/auth.py).  One session, the request handlers of slides_router, *)
(* the event_stream generator (the coordinator), its ThreadPoolExecutor    *)
(* and the _fetch_thumbnail worker tasks.                                  *)
(***************************************************************************)
EXTENDS Integers, Sequences, FiniteSets, TLC

\* ------------------------------------------------------------------ bounds
\* Largest number of files the Drive listing returns in the model.
MaxFiles == 3
\* Worker budget of the pool.  The source passes max_workers=15
\* (routers/auth.py:385); the model runs the same pool with a budget small
\* enough for MaxFiles to exceed it, so that tasks do wait in the queue.
max_workers == 2

\* Files listed by two concurrent streams together.
MaxFilesBoth == 2

\* Lines of the .env file.
MaxLines == 2

\* ------------------------------------------------------------------ values
\* Slots for event_stream generators.  A slot that is "off" is never used.
StreamIds == {1, 2}

\* Python's None, and a dict key that is not there.
None == "None"
Unset == "<unset>"

\* file_data.get("id") of a record without an id.
NoId == None
\* id of the i-th remote presentation.
IdOf(i) == <<"p1", "p2", "p3", "p4", "p5", "p6">>[i]
\* contentUrl of a thumbnail response.
ContentUrl == "https://content/url"

\* state values flow.authorization_url can hand out, plus the callback's
\* default "" for a missing query parameter.
OAuthStates == {"s1", "s2"}
CallbackStates == OAuthStates \cup {""}
\* The credentials dict oauth2_callback stores (six keys, never empty).
CredentialsDict == "credentials{token,...}"

\* Accept headers, as the set of media types they name.
AcceptHeaders == {{}, {"text/html"}, {"text/event-stream"}}

VARIABLES
    session,            \* request.session: a dict, keys "state", "credentials"
    request,            \* the request being answered: route and Accept header
    response,           \* the response the handler returned (or raised)
    pc,                 \* per stream: where the generator is suspended
    listing,            \* per stream: response["files"] as Drive returned it
    files,              \* per stream: the file_data dicts (mutated in place)
    total_files,        \* per stream
    processed_files,    \* per stream
    futures,            \* per stream: state of each submitted task's future
    yielded,            \* per stream: the futures as_completed has handed
                        \* out, in that order
    events,             \* per stream: the events yielded so far, in order
    resolution,         \* per stream, history: how each task's resolution ended
    failure,            \* per stream, history: the step that raised into the
                        \* stream's handler ("" when none did)
    more_pages,         \* per stream, history: Drive holds matching files
                        \* beyond the page the listing call returned
    calls,              \* per stream, history: the remote calls each task issued
    writers,            \* per stream, history: who wrote each record's
                        \* thumbnailUrl (the task's index, 0 for the coordinator)
    dotenv              \* load_env_file: os.environ, the file's lines, the
                        \* loop's position, what was raised

vars == <<session, request, response, pc, listing, files, total_files,
          processed_files, futures, yielded, events, resolution, failure,
          more_pages, calls, writers, dotenv>>

stream_vars == <<pc, listing, files, total_files, processed_files, futures,
                 yielded, events, resolution, failure, more_pages, calls,
                 writers>>

\* ------------------------------------------------------------------ session
EmptySession == [k \in {} |-> None]

\* session[key] = value
SessionSet(sess, key, value) ==
    [k \in DOMAIN sess \cup {key} |-> IF k = key THEN value ELSE sess[k]]

\* session.get(key, ""): a missing key reads as the empty string.
SessionGetDefault(sess, key) == IF key \in DOMAIN sess THEN sess[key] ELSE ""

\* session.get(key)
SessionGet(sess, key) == IF key \in DOMAIN sess THEN sess[key] ELSE None

get_credentials_from_session(sess) ==
    IF "credentials" \in DOMAIN sess THEN sess["credentials"] ELSE None

\* Python truthiness of the values a session holds.
Truthy(v) == v \notin {None, ""}

Redirect(url, code) == [kind |-> "redirect", to |-> url, status |-> code]
HttpError(code, why) == [kind |-> "error", to |-> why, status |-> code]
FileResponse(page) == [kind |-> "file", to |-> page, status |-> 200]
StreamingResponse(s) == [kind |-> "stream", to |-> "event_stream", status |-> 200]

\* Requests are answered one at a time, before a stream is opened.
NoStreamOpen == \A s \in StreamIds : pc[s] \in {"none", "off"}

\* GET /login
login ==
    /\ NoStreamOpen
    /\ \E st \in OAuthStates :
        /\ session' = SessionSet(session, "state", st)
        /\ request' = [route |-> "/login", accept |-> {}, state |-> "", error |-> ""]
        /\ response' = Redirect("https://accounts.google.com/o/oauth2/auth", 307)
    /\ UNCHANGED <<dotenv, stream_vars>>

\* A callback that uses the stored state up: session.pop("state") on success.
oauth2_callbackConsuming ==
    /\ NoStreamOpen
    /\ \E st \in CallbackStates, err \in {"", "access_denied"}, token_ok \in BOOLEAN :
        /\ request' = [route |-> "/oauth2callback", accept |-> {}, state |-> st, error |-> err]
        /\ IF err # ""
           THEN /\ response' = HttpError(400, err)
                /\ UNCHANGED session
           ELSE IF st # SessionGet(session, "state")
           THEN /\ response' = HttpError(400, "State mismatch")
                /\ UNCHANGED session
           ELSE IF ~token_ok
           THEN /\ response' = HttpError(500, "fetch_token raised")
                /\ UNCHANGED session
           ELSE /\ session' = [k \in {"credentials"} |-> CredentialsDict]
                /\ response' = Redirect("/presentations", 307)
    /\ UNCHANGED <<dotenv, stream_vars>>

\* GET /oauth2callback?code=..&state=..&error=..
oauth2_callback ==
    /\ NoStreamOpen
    /\ \E st \in CallbackStates, err \in {"", "access_denied"}, token_ok \in BOOLEAN :
        /\ request' = [route |-> "/oauth2callback", accept |-> {}, state |-> st, error |-> err]
        /\ IF err # ""
           THEN /\ response' = HttpError(400, err)
                /\ UNCHANGED session
           ELSE IF st # SessionGet(session, "state")
           THEN /\ response' = HttpError(400, "State mismatch")
                /\ UNCHANGED session
           ELSE IF ~token_ok
           THEN /\ response' = HttpError(500, "fetch_token raised")
                /\ UNCHANGED session
           ELSE /\ session' = SessionSet(session, "credentials", CredentialsDict)
                /\ response' = Redirect("/presentations", 307)
    /\ UNCHANGED <<dotenv, stream_vars>>

\* A logout that drops the credentials only (session.pop("credentials")).
logoutCredentialsOnly ==
    /\ NoStreamOpen
    /\ session' = [k \in DOMAIN session \ {"credentials"} |-> session[k]]
    /\ request' = [route |-> "/logout", accept |-> {}, state |-> "", error |-> ""]
    /\ response' = [kind |-> "json", to |-> "Successfully logged out", status |-> 200]
    /\ UNCHANGED <<dotenv, stream_vars>>

\* GET /logout
logout ==
    /\ NoStreamOpen
    /\ session' = EmptySession
    /\ request' = [route |-> "/logout", accept |-> {}, state |-> "", error |-> ""]
    /\ response' = [kind |-> "json", to |-> "Successfully logged out", status |-> 200]
    /\ UNCHANGED <<dotenv, stream_vars>>

\* ------------------------------------------------------------------ /presentations
AcceptsEventStream(accept) == "text/event-stream" \in accept

\* The Accept header looked at before the session.
AnswerStreamFirst(sess, accept, page_exists) ==
    IF AcceptsEventStream(accept)
    THEN "stream"
    ELSE IF ~Truthy(get_credentials_from_session(sess))
    THEN "redirect"
    ELSE IF page_exists THEN "page" ELSE "not_found"

\* The stream for every Accept header that does not ask for text/html.
AnswerStreamUnlessHtml(sess, accept, page_exists) ==
    IF ~Truthy(get_credentials_from_session(sess))
    THEN "redirect"
    ELSE IF "text/html" \in accept
    THEN IF page_exists THEN "page" ELSE "not_found"
    ELSE "stream"

\* What list_presentations answers, from the session, the Accept header and
\* whether frontend/progress.html is on disk.
Answer(sess, accept, page_exists) ==
    IF ~Truthy(get_credentials_from_session(sess))
    THEN "redirect"
    ELSE IF ~AcceptsEventStream(accept)
    THEN IF page_exists THEN "page" ELSE "not_found"
    ELSE "stream"

\* GET /presentations.  The handler opens no stream unless it answers with a
\* StreamingResponse; the generator itself starts when the response is consumed.
list_presentations ==
    \E s \in StreamIds, accept \in AcceptHeaders, page_exists \in BOOLEAN :
        /\ pc[s] = "none"
        /\ \A t \in StreamIds : t < s => pc[t] # "none"
        /\ request' = [route |-> "/presentations", accept |-> accept, state |-> "", error |-> ""]
        /\ LET a == Answer(session, accept, page_exists) IN
            /\ response' =
                CASE a = "redirect" -> Redirect("/login", 303)
                  [] a = "page" -> FileResponse("progress.html")
                  [] a = "not_found" -> HttpError(404, "Progress page not found")
                  [] a = "stream" -> StreamingResponse(s)
            /\ pc' = IF a = "stream" THEN [pc EXCEPT ![s] = "start"] ELSE pc
        /\ UNCHANGED <<dotenv, session, listing, files, total_files, processed_files,
                       futures, yielded, events, resolution, failure,
                       more_pages, calls, writers>>

\* ------------------------------------------------------------------ events
\* (processed_files / total_files) * 100 if total_files > 0 else 100; the model
\* keeps the integer part of the float.
Percent(processed, total) ==
    IF total > 0 THEN (processed * 100) \div total ELSE 100

Progress(percent, processed, total) ==
    [event |-> "progress", percent |-> percent, processed |-> processed,
     total |-> total]

\* The complete event carries the rendering of the template's "presentations"
\* context; the model keeps the list that was rendered.
Complete(presentations) == [event |-> "complete", presentations |-> presentations]

Error == [event |-> "error"]

\* No special case for the empty listing.
InitialProgressZero(total) == Progress(0, 0, total)

\* The first yield: 100% for an empty listing, 0% otherwise.
InitialProgress(total) ==
    IF total = 0 THEN Progress(100, 0, 0) ELSE Progress(0, 0, total)

Emit(s, e) == events' = [events EXCEPT ![s] = Append(@, e)]

\* A handler that only logs.
HandlerSilent(evs) == evs

\* except Exception at the bottom of event_stream: yield the error event.
Handler(evs) == Append(evs, Error)

\* An exception reaches the handler from the step named by where.
Raise(s, where) ==
    /\ events' = [events EXCEPT ![s] = Handler(@)]
    /\ failure' = [failure EXCEPT ![s] = where]
    /\ pc' = [pc EXCEPT ![s] = "yield_error"]

\* ------------------------------------------------------------------ enumeration
\* A file_data dict as files().list returns it: no thumbnailUrl key yet.
FileData(i, id) == [name |-> i, id |-> id, thumbnailUrl |-> Unset]

\* The listings Drive can return: up to MaxFiles records, the i-th with its
\* id or without one.
Listings ==
    UNION {[1..n -> {NoId, "id"}] : n \in 0..MaxFiles}

ListingOf(shape) ==
    [i \in 1..Len(shape) |->
        FileData(i, IF shape[i] = NoId THEN NoId ELSE IdOf(i))]

\* The tasks submitted right after the listing, ahead of the first yield.
EnumerateSubmitting(s) ==
    /\ pc[s] = "start"
    /\ \/ /\ Raise(s, "enumeration")
          /\ UNCHANGED <<listing, files, total_files, processed_files, more_pages,
                         futures, resolution, calls, writers>>
       \/ \E shape \in Listings, more \in BOOLEAN :
            /\ more_pages' = [more_pages EXCEPT ![s] = more]
            /\ listing' = [listing EXCEPT ![s] = ListingOf(shape)]
            /\ files' = [files EXCEPT ![s] = ListingOf(shape)]
            /\ total_files' = [total_files EXCEPT ![s] = Len(shape)]
            /\ processed_files' = [processed_files EXCEPT ![s] = 0]
            /\ futures' = [futures EXCEPT ![s] =
                              [i \in 1..Len(shape) |->
                                  [state |-> "PENDING", at |-> "", exception |-> FALSE]]]
            /\ resolution' = [resolution EXCEPT ![s] = [i \in 1..Len(shape) |-> "pending"]]
            /\ calls' = [calls EXCEPT ![s] = [i \in 1..Len(shape) |-> <<>>]]
            /\ writers' = [writers EXCEPT ![s] = [i \in 1..Len(shape) |-> <<>>]]
            /\ Emit(s, InitialProgress(Len(shape)))
            /\ pc' = [pc EXCEPT ![s] = "yield_initial"]
            /\ UNCHANGED failure
    /\ UNCHANGED <<dotenv, session, request, response, yielded>>

\* event_stream up to its first yield: build the Drive client, run the
\* listing, count the files, yield the initial progress event; any exception
\* goes to the handler at the bottom, which yields the error event.  The
\* listing is the one page files().list(pageSize=1000).execute() returns;
\* Drive may hold matching files beyond that page (more), which the stream
\* never asks for: nextPageToken is neither requested nor followed.
Enumerate(s) ==
    /\ pc[s] = "start"
    /\ \/ /\ Raise(s, "enumeration")
          /\ UNCHANGED <<listing, files, total_files, processed_files, more_pages>>
       \/ \E shape \in Listings, more \in BOOLEAN :
            /\ more_pages' = [more_pages EXCEPT ![s] = more]
            /\ listing' = [listing EXCEPT ![s] = ListingOf(shape)]
            /\ files' = [files EXCEPT ![s] = ListingOf(shape)]
            /\ total_files' = [total_files EXCEPT ![s] = Len(shape)]
            /\ processed_files' = [processed_files EXCEPT ![s] = 0]
            /\ Emit(s, InitialProgress(Len(shape)))
            /\ pc' = [pc EXCEPT ![s] = "yield_initial"]
            /\ UNCHANGED failure
    /\ UNCHANGED <<dotenv, session, request, response, futures, yielded, resolution,
                   calls, writers>>

\* ------------------------------------------------------------------ the pool
Pending == [state |-> "PENDING", at |-> "", exception |-> FALSE]
Running(at) == [state |-> "RUNNING", at |-> at, exception |-> FALSE]
Finished(raised) == [state |-> "FINISHED", at |-> "", exception |-> raised]

\* The executor lives from the with statement's entry to its exit.
ExecutorAlive(s) == pc[s] \in {"as_completed", "yield_progress", "closing"}

InFlight(s) == {i \in DOMAIN futures[s] : futures[s][i].state = "RUNNING"}
Queued(s) == {i \in DOMAIN futures[s] : futures[s][i].state = "PENDING"}

\* Futures counted as done from the moment their task starts.
SettledStarted(s) == {i \in DOMAIN futures[s] : futures[s][i].state # "PENDING"}

Settled(s) == {i \in DOMAIN futures[s] : futures[s][i].state = "FINISHED"}

\* A pool without a budget.
WorkerAlwaysFree(s) == TRUE

\* A worker thread is free to take the next work item.
WorkerFree(s) == Cardinality(InFlight(s)) < max_workers

\* No remote call issued yet.
NoCalls == <<>>

\* Resuming after the initial progress event with a non-empty listing: enter
\* the with block, submit one task per file_data in list order, call
\* as_completed and wait for the first future.
Submit(s) ==
    /\ pc[s] = "yield_initial"
    /\ files[s] # <<>>
    /\ futures' = [futures EXCEPT ![s] = [i \in DOMAIN files[s] |-> Pending]]
    /\ resolution' = [resolution EXCEPT ![s] = [i \in DOMAIN files[s] |-> "pending"]]
    /\ calls' = [calls EXCEPT ![s] = [i \in DOMAIN files[s] |-> NoCalls]]
    /\ writers' = [writers EXCEPT ![s] = [i \in DOMAIN files[s] |-> <<>>]]
    /\ pc' = [pc EXCEPT ![s] = "as_completed"]
    /\ UNCHANGED <<dotenv, session, request, response, listing, files, total_files,
                   processed_files, yielded, events, failure, more_pages>>

\* Every task writes through the same name, bound to the first record.
SetThumbnailShared(fs, i, url) == [fs EXCEPT ![1].thumbnailUrl = url]

SetThumbnail(fs, i, url) == [fs EXCEPT ![i].thumbnailUrl = url]

\* The task writes its record's thumbnailUrl and returns.
TaskReturns(s, i, url) ==
    /\ files' = [files EXCEPT ![s] = SetThumbnail(@, i, url)]
    /\ futures' = [futures EXCEPT ![s][i] = Finished(FALSE)]
    /\ resolution' = [resolution EXCEPT ![s][i] = IF url = None THEN "absent" ELSE "url"]
    /\ writers' = [writers EXCEPT ![s][i] = Append(@, i)]
    /\ UNCHANGED calls

\* Variant: the exception kills the worker thread and the future is never
\* marked finished.
TaskRaisesLost(s, i) ==
    /\ futures' = [futures EXCEPT ![s][i] = Running("lost")]
    /\ resolution' = [resolution EXCEPT ![s][i] = "raised"]
    /\ UNCHANGED <<files, calls, writers>>

\* The task ends with an exception, which its future keeps.
TaskRaises(s, i) ==
    /\ futures' = [futures EXCEPT ![s][i] = Finished(TRUE)]
    /\ resolution' = [resolution EXCEPT ![s][i] = "raised"]
    /\ UNCHANGED <<files, calls, writers>>

\* A request to the Slides API: presentations().get(presentationId=..) or
\* presentations().pages().getThumbnail(presentationId=.., pageObjectId=..).
SlidesCall(method, presentation_id, object_id) ==
    [method |-> method, presentationId |-> presentation_id, pageObjectId |-> object_id]

\* The task goes on to its next remote call.
TaskCalls(s, i, call, object_id) ==
    /\ futures' = [futures EXCEPT ![s][i] = Running(call)]
    /\ calls' = [calls EXCEPT ![s][i] = Append(@, SlidesCall(call, files[s][i].id, object_id))]
    /\ UNCHANGED <<files, resolution, writers>>

\* A worker thread takes the oldest queued work item: the future is running.
WorkerStart(s, i) ==
    /\ ExecutorAlive(s)
    /\ i \in Queued(s)
    /\ \A j \in Queued(s) : i <= j
    /\ WorkerFree(s)
    /\ futures' = [futures EXCEPT ![s][i] = Running("build")]
    /\ UNCHANGED <<dotenv, session, request, response, pc, listing, files, total_files,
                   processed_files, yielded, events, resolution, failure,
                   more_pages, calls, writers>>

\* No look at the id before the first call.
WorkerBuildNoIdCheck(s, i) ==
    /\ i \in InFlight(s)
    /\ futures[s][i].at = "build"
    /\ \/ TaskRaises(s, i)
       \/ TaskCalls(s, i, "get", None)
    /\ UNCHANGED <<dotenv, session, request, response, pc, listing, total_files,
                   processed_files, yielded, events, failure, more_pages>>

\* _fetch_thumbnail up to its first remote call: build the slides client
\* (outside the try, so an exception here ends the task and is stored in the
\* future), then the id check.
WorkerBuild(s, i) ==
    /\ i \in InFlight(s)
    /\ futures[s][i].at = "build"
    /\ \/ TaskRaises(s, i)
       \/ IF ~Truthy(files[s][i].id)
          THEN TaskReturns(s, i, None)
          ELSE TaskCalls(s, i, "get", None)
    /\ UNCHANGED <<dotenv, session, request, response, pc, listing, total_files,
                   processed_files, yielded, events, failure, more_pages>>

\* What presentations().get(fields="slides(objectId)") can answer: a body
\* without "slides", with an empty list, with a first slide that has no
\* objectId, or with a first slide that has one.
PresentationBodies ==
    {[has_slides |-> FALSE, slides |-> <<>>],
     [has_slides |-> TRUE, slides |-> <<>>],
     [has_slides |-> TRUE, slides |-> <<[objectId |-> None]>>],
     [has_slides |-> TRUE, slides |-> <<[objectId |-> "g1"]>>]}

\* presentation.get("slides", [{}])[0].get("objectId", None); "IndexError"
\* when the list is empty.
FirstObjectId(body) ==
    LET slides == IF body.has_slides THEN body.slides ELSE <<[objectId |-> None]>>
    IN IF slides = <<>> THEN "IndexError" ELSE slides[1].objectId

\* presentations().get issued a second time when the first attempt raised.
WorkerGetRetried(s, i) ==
    /\ i \in InFlight(s)
    /\ futures[s][i].at = "get"
    /\ \E raised \in BOOLEAN, body \in PresentationBodies :
        LET object_id == IF raised THEN "HttpError" ELSE FirstObjectId(body) IN
        IF raised /\ Len(calls[s][i]) < 2
        THEN TaskCalls(s, i, "get", None)
        ELSE IF object_id \in {"HttpError", "IndexError"} \/ ~Truthy(object_id)
        THEN TaskReturns(s, i, None)
        ELSE TaskCalls(s, i, "getThumbnail", object_id)
    /\ UNCHANGED <<dotenv, session, request, response, pc, listing, total_files,
                   processed_files, yielded, events, failure, more_pages>>

\* presentations().get outside the try: what it raises leaves the task.
WorkerGetUncaught(s, i) ==
    /\ i \in InFlight(s)
    /\ futures[s][i].at = "get"
    /\ \E raised \in BOOLEAN, body \in PresentationBodies :
        LET object_id == IF raised THEN "HttpError" ELSE FirstObjectId(body) IN
        IF raised
        THEN TaskRaises(s, i)
        ELSE IF object_id = "IndexError" \/ ~Truthy(object_id)
        THEN TaskReturns(s, i, None)
        ELSE TaskCalls(s, i, "getThumbnail", object_id)
    /\ UNCHANGED <<dotenv, session, request, response, pc, listing, total_files,
                   processed_files, yielded, events, failure, more_pages>>

\* The first remote call returns or raises.  Anything raised inside the try is
\* caught and the record gets None; so does a missing first slide.
WorkerGet(s, i) ==
    /\ i \in InFlight(s)
    /\ futures[s][i].at = "get"
    /\ \E raised \in BOOLEAN, body \in PresentationBodies :
        LET object_id == IF raised THEN "HttpError" ELSE FirstObjectId(body) IN
        IF object_id \in {"HttpError", "IndexError"} \/ ~Truthy(object_id)
        THEN TaskReturns(s, i, None)
        ELSE TaskCalls(s, i, "getThumbnail", object_id)
    /\ UNCHANGED <<dotenv, session, request, response, pc, listing, total_files,
                   processed_files, yielded, events, failure, more_pages>>

\* The task counts itself as processed when it returns.
WorkerGetThumbnailCounting(s, i) ==
    /\ i \in InFlight(s)
    /\ futures[s][i].at = "getThumbnail"
    /\ \E url \in {ContentUrl, None}, raised \in BOOLEAN :
        TaskReturns(s, i, IF raised THEN None ELSE url)
    /\ processed_files' = [processed_files EXCEPT ![s] = @ + 1]
    /\ UNCHANGED <<dotenv, session, request, response, pc, listing, total_files,
                   yielded, events, failure, more_pages>>

\* The second remote call returns (with or without a contentUrl) or raises.
\* thumbnail_response.get("contentUrl") of a body without one is None.
WorkerGetThumbnail(s, i) ==
    /\ i \in InFlight(s)
    /\ futures[s][i].at = "getThumbnail"
    /\ \E url \in {ContentUrl, None}, raised \in BOOLEAN :
        TaskReturns(s, i, IF raised THEN None ELSE url)
    /\ UNCHANGED <<dotenv, session, request, response, pc, listing, total_files,
                   processed_files, yielded, events, failure, more_pages>>

\* ------------------------------------------------------------------ the coordinator
\* No fallback in the except branch.
AfterResultKept(fs, i, raised) == fs

\* The fallback moved to the finally clause, without its guard: it runs for
\* every future and overwrites what the task wrote.
AfterResultFinally(fs, i, raised) == SetThumbnail(fs, i, None)

\* future_result.result() and the except branch around it: when the task
\* raised, the coordinator gives the record a thumbnailUrl if it has none.
AfterResult(fs, i, raised) ==
    IF raised /\ fs[i].thumbnailUrl = Unset THEN SetThumbnail(fs, i, None) ELSE fs

\* No try around result().
EscapesUncaught(raised) == raised

\* except Exception around result(): whatever the task raised is caught
\* there, so nothing leaves the loop body.
Escapes(raised) == FALSE

\* Finished futures handed out again and again.
CompletedAgain(s) == Settled(s)

\* as_completed hands out each finished future once.
HandedOut(s) == {yielded[s][k] : k \in DOMAIN yielded[s]}

Completed(s) == Settled(s) \ HandedOut(s)

\* processed_files kept at module level: one counter for all streams.
ReportShared(s, i) ==
    /\ pc[s] \in {"as_completed", "yield_progress"}
    /\ i \in Completed(s)
    /\ yielded' = [yielded EXCEPT ![s] = Append(@, i)]
    /\ processed_files' = [t \in StreamIds |-> processed_files[t] + 1]
    /\ LET raised == futures[s][i].exception
           progress == Progress(Percent(processed_files[s] + 1, total_files[s]),
                                processed_files[s] + 1, total_files[s])
       IN /\ files' = [files EXCEPT ![s] = AfterResult(@, i, raised)]
          /\ writers' = IF AfterResult(files[s], i, raised) # files[s]
                        THEN [writers EXCEPT ![s][i] = Append(@, 0)]
                        ELSE writers
          /\ Emit(s, progress)
          /\ pc' = [pc EXCEPT ![s] = "yield_progress"]
    /\ UNCHANGED <<dotenv, session, request, response, listing, total_files, futures,
                   resolution, failure, more_pages, calls>>

\* One iteration of the as_completed loop, up to its yield: take a finished
\* future that was not handed out yet, count it, look at its result, yield
\* the progress event (in the finally clause, whatever result() did).
Report(s, i) ==
    /\ pc[s] \in {"as_completed", "yield_progress"}
    /\ i \in Completed(s)
    /\ yielded' = [yielded EXCEPT ![s] = Append(@, i)]
    /\ processed_files' = [processed_files EXCEPT ![s] = @ + 1]
    /\ LET raised == futures[s][i].exception
           progress == Progress(Percent(processed_files[s] + 1, total_files[s]),
                                processed_files[s] + 1, total_files[s])
       IN IF Escapes(raised)
          THEN /\ events' = [events EXCEPT ![s] = Handler(Append(@, progress))]
               /\ pc' = [pc EXCEPT ![s] = "yield_error"]
               /\ UNCHANGED <<files, writers>>
          ELSE /\ files' = [files EXCEPT ![s] = AfterResult(@, i, raised)]
               /\ writers' = IF AfterResult(files[s], i, raised) # files[s]
                             THEN [writers EXCEPT ![s][i] = Append(@, 0)]
                             ELSE writers
               /\ Emit(s, progress)
               /\ pc' = [pc EXCEPT ![s] = "yield_progress"]
    /\ UNCHANGED <<dotenv, session, request, response, listing, total_files, futures,
                   resolution, failure, more_pages, calls>>

\* Only the records that got a thumbnail.
ExtendResolved(presentations_data, fs) ==
    presentations_data \o SelectSeq(fs, LAMBDA f : Truthy(f.thumbnailUrl))

\* presentations_data.extend(files)
Extend(presentations_data, fs) == presentations_data \o fs

\* The loop left after its first iteration (a break where the yield is).
FinishEarly(s) ==
    /\ \/ pc[s] = "yield_initial" /\ files[s] = <<>>
       \/ pc[s] = "yield_progress"
    /\ \/ /\ Emit(s, Complete(Extend(<<>>, files[s])))
          /\ pc' = [pc EXCEPT ![s] = "yield_complete"]
          /\ UNCHANGED failure
       \/ Raise(s, "rendering")
    /\ UNCHANGED <<dotenv, session, request, response, listing, files, total_files,
                   processed_files, futures, yielded, resolution, more_pages,
                   calls, writers>>

\* The loop is over (or there was nothing to submit): leave the with block,
\* collect the records, render the template and yield the complete event; an
\* exception while rendering goes to the handler, which yields the error event.
Finish(s) ==
    /\ \/ pc[s] = "yield_initial" /\ files[s] = <<>>
       \/ pc[s] = "yield_progress" /\ HandedOut(s) = DOMAIN futures[s]
    /\ \/ /\ Emit(s, Complete(Extend(<<>>, files[s])))
          /\ pc' = [pc EXCEPT ![s] = "yield_complete"]
          /\ UNCHANGED failure
       \/ Raise(s, "rendering")
    /\ UNCHANGED <<dotenv, session, request, response, listing, files, total_files,
                   processed_files, futures, yielded, resolution, more_pages,
                   calls, writers>>

\* The consumer asks for the next event after a terminal one: the generator
\* returns.
Return(s) ==
    /\ pc[s] \in {"yield_complete", "yield_error"}
    /\ pc' = [pc EXCEPT ![s] = "done"]
    /\ UNCHANGED <<dotenv, session, request, response, listing, files, total_files,
                   processed_files, futures, yielded, events, resolution, failure,
                   more_pages, calls, writers>>

\* A handler that catches GeneratorExit too and yields the error event.
CloseCaught(s) ==
    /\ pc[s] \in {"yield_initial", "yield_progress", "yield_complete", "yield_error"}
    /\ events' = [events EXCEPT ![s] = Handler(@)]
    /\ pc' = [pc EXCEPT ![s] = IF pc[s] = "yield_progress" THEN "closing" ELSE "closed"]
    /\ UNCHANGED <<dotenv, session, request, response, listing, files, total_files,
                   processed_files, futures, yielded, resolution, failure,
                   more_pages, calls, writers>>

\* The client goes away while the generator is suspended at a yield:
\* GeneratorExit is raised there.  It is no Exception, so the handler of the
\* stream does not run; inside the with block the executor's shutdown waits
\* for every submitted task.
Close(s) ==
    /\ pc[s] \in {"yield_initial", "yield_progress", "yield_complete", "yield_error"}
    /\ pc' = [pc EXCEPT ![s] = IF pc[s] = "yield_progress" THEN "closing" ELSE "closed"]
    /\ UNCHANGED <<dotenv, session, request, response, listing, files, total_files,
                   processed_files, futures, yielded, events, resolution, failure,
                   more_pages, calls, writers>>

\* executor.shutdown(wait=False): the with block is left at once.
ShutdownNoWait(s) ==
    /\ pc[s] = "closing"
    /\ pc' = [pc EXCEPT ![s] = "closed"]
    /\ UNCHANGED <<dotenv, session, request, response, listing, files, total_files,
                   processed_files, futures, yielded, events, resolution, failure,
                   more_pages, calls, writers>>

\* executor.shutdown(wait=True) returns once all tasks have run.
Shutdown(s) ==
    /\ pc[s] = "closing"
    /\ Settled(s) = DOMAIN futures[s]
    /\ pc' = [pc EXCEPT ![s] = "closed"]
    /\ UNCHANGED <<dotenv, session, request, response, listing, files, total_files,
                   processed_files, futures, yielded, events, resolution, failure,
                   more_pages, calls, writers>>

\* ------------------------------------------------------------------ load_env_file
\* Strings are sequences of one-character strings.
Whitespace == {" ", "\t", "\n"}

RECURSIVE LStrip(_, _)
LStrip(str, chars) ==
    IF str # <<>> /\ str[1] \in chars THEN LStrip(Tail(str), chars) ELSE str

RECURSIVE RStrip(_, _)
RStrip(str, chars) ==
    IF str # <<>> /\ str[Len(str)] \in chars
    THEN RStrip(SubSeq(str, 1, Len(str) - 1), chars)
    ELSE str

\* str.strip() and str.strip(chars)
Strip(str, chars) == RStrip(LStrip(str, chars), chars)

\* str.split("=", 1): one part when there is no "=", else what stands before
\* the first "=" and everything after it.
SplitOnce(str) ==
    LET eqs == {k \in DOMAIN str : str[k] = "="} IN
    IF eqs = {} THEN <<str>>
    ELSE LET k == CHOOSE x \in eqs : \A y \in eqs : x <= y
         IN <<SubSeq(str, 1, k - 1), SubSeq(str, k + 1, Len(str))>>

\* The lines the file iterator can yield: blank, comments (one indented),
\* plain, spaced and quoted pairs, a value with a second "=", an empty value,
\* a line without "=", a line with an empty key.
EnvLines ==
    {<<"\n">>,
     <<"#", "A", "=", "9", "\n">>,
     <<" ", "#", "A", "=", "9">>,
     <<"A", "=", "1", "\n">>,
     <<" ", "A", " ", "=", " ", "2", " ", "\n">>,
     <<"A", "=", "\"", "3", "\"", "\n">>,
     <<"B", "=", "'", "1", "'">>,
     <<"B", "=", "1", "=", "2", "\n">>,
     <<"B", "=", "\n">>,
     <<"A", "\n">>,
     <<"=", "1", "\n">>}

EnvFiles == UNION {[1..n -> EnvLines] : n \in 0..MaxLines}

\* os.environ before the call: empty, or holding a key the file may name and
\* one it never names.
Environs ==
    {[k \in {} |-> <<>>],
     [k \in {<<"A">>, <<"H">>} |-> <<"0">>]}

\* os.environ.setdefault(key, value): a value already there is kept.
SetEnvDefault(environ, key, value) ==
    IF key \in DOMAIN environ THEN environ
    ELSE [k \in DOMAIN environ \cup {key} |-> IF k = key THEN value ELSE environ[k]]

\* os.environ[key] = value
SetEnv(environ, key, value) ==
    [k \in DOMAIN environ \cup {key} |-> IF k = key THEN value ELSE environ[k]]

\* One iteration of "for line in f": skip a blank or comment line, raise
\* ValueError when the split gives no pair, else assign; os.environ refuses an
\* empty name with OSError.
load_env_file ==
    /\ dotenv.raised = ""
    /\ dotenv.at <= Len(dotenv.file)
    /\ LET line == Strip(dotenv.file[dotenv.at], Whitespace)
           parts == SplitOnce(line)
       IN  IF line = <<>> \/ line[1] = "#"
           THEN dotenv' = [dotenv EXCEPT !.at = @ + 1]
           ELSE IF Len(parts) # 2
           THEN dotenv' = [dotenv EXCEPT !.raised = "ValueError"]
           ELSE LET key == Strip(parts[1], Whitespace)
                    value == Strip(Strip(Strip(parts[2], Whitespace), {"\""}), {"'"})
                IN  IF key = <<>>
                    THEN dotenv' = [dotenv EXCEPT !.raised = "OSError"]
                    ELSE dotenv' = [dotenv EXCEPT
                                       !.environ = SetEnv(@, key, value),
                                       !.at = @ + 1]
    /\ UNCHANGED <<session, request, response, stream_vars>>

\* The routes never look at the environment again: for them the loader has
\* nothing left to do.
NoEnvFile ==
    [environ |-> [k \in {} |-> <<>>], initial |-> [k \in {} |-> <<>>],
     file |-> <<>>, at |-> 1, raised |-> ""]

\* ------------------------------------------------------------------ specification
InitStream ==
    /\ listing = [s \in StreamIds |-> <<>>]
    /\ files = [s \in StreamIds |-> <<>>]
    /\ total_files = [s \in StreamIds |-> 0]
    /\ processed_files = [s \in StreamIds |-> 0]
    /\ futures = [s \in StreamIds |-> <<>>]
    /\ yielded = [s \in StreamIds |-> <<>>]
    /\ events = [s \in StreamIds |-> <<>>]
    /\ resolution = [s \in StreamIds |-> <<>>]
    /\ failure = [s \in StreamIds |-> ""]
    /\ more_pages = [s \in StreamIds |-> FALSE]
    /\ calls = [s \in StreamIds |-> <<>>]
    /\ writers = [s \in StreamIds |-> <<>>]

\* A fresh session, no request answered yet, one stream slot.
Init ==
    /\ session = EmptySession
    /\ request = [route |-> "", accept |-> {}, state |-> "", error |-> ""]
    /\ response = [kind |-> "", to |-> "", status |-> 0]
    /\ pc = [s \in StreamIds |-> IF s = 1 THEN "none" ELSE "off"]
    /\ InitStream
    /\ dotenv = NoEnvFile

Next ==
    \/ login
    \/ oauth2_callback
    \/ logout
    \/ list_presentations
    \/ \E s \in StreamIds : Enumerate(s)
    \/ \E s \in StreamIds : Submit(s)
    \/ \E s \in StreamIds : \E i \in DOMAIN futures[s] : WorkerStart(s, i)
    \/ \E s \in StreamIds : \E i \in DOMAIN futures[s] : WorkerBuild(s, i)
    \/ \E s \in StreamIds : \E i \in DOMAIN futures[s] : WorkerGet(s, i)
    \/ \E s \in StreamIds : \E i \in DOMAIN futures[s] : WorkerGetThumbnail(s, i)
    \/ \E s \in StreamIds : \E i \in DOMAIN futures[s] : Report(s, i)
    \/ \E s \in StreamIds : Finish(s)
    \/ \E s \in StreamIds : Return(s)
    \/ \E s \in StreamIds : Close(s)
    \/ \E s \in StreamIds : Shutdown(s)

Spec == Init /\ [][Next]_vars

\* One step of stream s while its client keeps consuming: the generator is
\* never closed at a yield, so Close (and the pool shutdown after it) is out.
StreamStep(s) ==
    \/ Enumerate(s)
    \/ Submit(s)
    \/ \E i \in DOMAIN futures[s] : WorkerStart(s, i)
    \/ \E i \in DOMAIN futures[s] : WorkerBuild(s, i)
    \/ \E i \in DOMAIN futures[s] : WorkerGet(s, i)
    \/ \E i \in DOMAIN futures[s] : WorkerGetThumbnail(s, i)
    \/ \E i \in DOMAIN futures[s] : Report(s, i)
    \/ Finish(s)
    \/ Return(s)

Consuming ==
    \/ login
    \/ oauth2_callback
    \/ logout
    \/ list_presentations
    \/ \E s \in StreamIds : StreamStep(s)

\* A stream that can take a step eventually takes one: every remote call
\* returns or raises (Enumerate, WorkerBuild, WorkerGet, WorkerGetThumbnail),
\* the pool's threads are scheduled (WorkerStart), and the generator is resumed
\* after each yield because the client reads the event (Submit, Report, Finish,
\* Return).
LiveSpec ==
    /\ Init
    /\ [][Consuming]_vars
    /\ \A s \in StreamIds : WF_vars(StreamStep(s))

\* Both stream slots free: two /presentations requests can be streaming at
\* the same time.
InitBoth ==
    /\ session = EmptySession
    /\ request = [route |-> "", accept |-> {}, state |-> "", error |-> ""]
    /\ response = [kind |-> "", to |-> "", status |-> 0]
    /\ pc = [s \in StreamIds |-> "none"]
    /\ InitStream
    /\ dotenv = NoEnvFile

\* The listing step while Drive lists at most MaxFilesBoth files to the two
\* streams together, each listing on a single page.
EnumerateBoth(s) ==
    /\ Enumerate(s)
    /\ Len(listing'[1]) + Len(listing'[2]) <= MaxFilesBoth
    /\ ~more_pages'[s]

NextBoth ==
    \/ login
    \/ oauth2_callback
    \/ logout
    \/ list_presentations
    \/ \E s \in StreamIds : EnumerateBoth(s)
    \/ \E s \in StreamIds : Submit(s)
    \/ \E s \in StreamIds : \E i \in DOMAIN futures[s] : WorkerStart(s, i)
    \/ \E s \in StreamIds : \E i \in DOMAIN futures[s] : WorkerBuild(s, i)
    \/ \E s \in StreamIds : \E i \in DOMAIN futures[s] : WorkerGet(s, i)
    \/ \E s \in StreamIds : \E i \in DOMAIN futures[s] : WorkerGetThumbnail(s, i)
    \/ \E s \in StreamIds : \E i \in DOMAIN futures[s] : Report(s, i)
    \/ \E s \in StreamIds : Finish(s)
    \/ \E s \in StreamIds : Return(s)
    \/ \E s \in StreamIds : Close(s)
    \/ \E s \in StreamIds : Shutdown(s)

ConcurrentSpec == InitBoth /\ [][NextBoth]_vars

\* load_env_file(".env") at import, on any of the files and environments.
InitDotenv ==
    /\ session = EmptySession
    /\ request = [route |-> "", accept |-> {}, state |-> "", error |-> ""]
    /\ response = [kind |-> "", to |-> "", status |-> 0]
    /\ pc = [s \in StreamIds |-> "off"]
    /\ InitStream
    /\ \E f \in EnvFiles, e \in Environs :
          dotenv = [environ |-> e, initial |-> e, file |-> f, at |-> 1, raised |-> ""]

DotenvSpec == InitDotenv /\ [][load_env_file]_vars

\* ------------------------------------------------------------------ claims
ProgressEvents(s) == SelectSeq(events[s], LAMBDA e : e.event = "progress")

Terminal(e) == e.event \in {"complete", "error"}

Last(seq) == seq[Len(seq)]

\* The listing call of stream s returned.
Enumerated(s) == pc[s] \notin {"none", "off", "start"} /\ failure[s] # "enumeration"

\* What identifies a record: the fields Drive sent.
Identity(fs) == [i \in DOMAIN fs |-> <<fs[i].name, fs[i].id>>]

\* C1: the progress events of a stream carry processed = 0, 1, 2, ... in the
\* order they are yielded, none carries processed > total, and total is the
\* number of files the listing returned.
C1_ProcessedGrowsByOne ==
    \A s \in StreamIds :
        LET p == ProgressEvents(s) IN
        \A k \in DOMAIN p :
            /\ p[k].processed = k - 1
            /\ p[k].processed <= p[k].total
            /\ p[k].total = Len(listing[s])

\* C1 witness: a batch of at least two files, every completion reported, the
\* first file reported last.
C1_Witness ==
    \E s \in StreamIds :
        /\ Len(listing[s]) >= 2
        /\ Len(ProgressEvents(s)) = Len(listing[s]) + 1
        /\ Last(yielded[s]) = 1

\* C2: a complete or error event is the last event of its stream: there is at
\* most one of them and nothing follows it.
C2_TerminalEventIsLast ==
    \A s \in StreamIds :
        \A k \in DOMAIN events[s] :
            Terminal(events[s][k]) => k = Len(events[s])

\* C2 witness: a stream that ran to its end with progress events before its
\* complete event.
C2_Witness ==
    \E s \in StreamIds :
        /\ pc[s] = "done"
        /\ Len(events[s]) >= 3
        /\ Last(events[s]).event = "complete"

\* C3: once the complete event is yielded, every record of the listing has a
\* thumbnailUrl, a URL or None, in the list the event carries and in files.
C3_EveryThumbnailSet ==
    \A s \in StreamIds :
        \A k \in DOMAIN events[s] :
            events[s][k].event = "complete" =>
                /\ DOMAIN events[s][k].presentations = DOMAIN listing[s]
                /\ \A i \in DOMAIN listing[s] :
                    /\ events[s][k].presentations[i].thumbnailUrl \in {None, ContentUrl}
                    /\ files[s][i].thumbnailUrl \in {None, ContentUrl}

\* C3 witness: a complete event over a task that raised while building the
\* client, a record without id and a record with a URL.
C3_Witness ==
    \E s \in StreamIds :
        /\ events[s] # <<>>
        /\ Last(events[s]).event = "complete"
        /\ \E i, j, k \in DOMAIN files[s] :
            /\ resolution[s][i] = "raised"
            /\ resolution[s][j] = "absent" /\ files[s][j].id = NoId
            /\ resolution[s][k] = "url"

\* C4: item failures are never fatal: an error event is there only when the
\* enumeration or the rendering raised, and a stream that ran to its end
\* without either ends with a complete event that lists every record of the
\* listing, with its URL where the resolution gave one and None where it failed.
C4_ItemFailuresNotFatal ==
    \A s \in StreamIds :
        /\ (\E k \in DOMAIN events[s] : events[s][k].event = "error")
            => failure[s] \in {"enumeration", "rendering"}
        /\ (pc[s] = "done" /\ failure[s] = "") =>
            /\ Last(events[s]).event = "complete"
            /\ Identity(Last(events[s]).presentations) = Identity(listing[s])
            /\ \A i \in DOMAIN listing[s] :
                LET url == Last(events[s]).presentations[i].thumbnailUrl IN
                /\ resolution[s][i] \in {"url", "absent", "raised"}
                /\ resolution[s][i] = "url" => url = ContentUrl
                /\ resolution[s][i] \in {"absent", "raised"} => url = None

\* C4 witness: a finished stream with one resolution that succeeded and one,
\* of a record with an id, that failed.
C4_Witness ==
    \E s \in StreamIds :
        /\ pc[s] = "done"
        /\ failure[s] = ""
        /\ \E i, j \in DOMAIN files[s] :
            /\ resolution[s][i] = "url"
            /\ resolution[s][j] = "absent" /\ files[s][j].id # NoId

\* C5: at most max_workers tasks are in flight at once; the others are queued
\* behind them, in submission order.
C5_AtMostKInFlight ==
    \A s \in StreamIds :
        /\ Cardinality(InFlight(s)) <= max_workers
        /\ \A i \in Queued(s) : \A j \in DOMAIN futures[s] \ Queued(s) : j < i

\* C5 witness: the pool is full and a task waits.
C5_Witness ==
    \E s \in StreamIds :
        /\ Cardinality(InFlight(s)) = max_workers
        /\ Queued(s) # {}

\* C6 as stated: with an empty listing, a stream that ran to its end yielded
\* the 100% progress event and then the complete event.
C6_EmptyListingAsStated ==
    \A s \in StreamIds :
        (Enumerated(s) /\ total_files[s] = 0 /\ pc[s] = "done") =>
            events[s] = <<Progress(100, 0, 0), Complete(<<>>)>>

\* C6, amended: with an empty listing no task is submitted, the first event is
\* the progress event 100/0/0, and the only event after it is the terminal
\* one: complete, or error when the rendering raised.
C6_EmptyListing ==
    \A s \in StreamIds :
        (Enumerated(s) /\ total_files[s] = 0) =>
            /\ futures[s] = <<>>
            /\ processed_files[s] = 0
            /\ Len(events[s]) \in {1, 2}
            /\ events[s][1] = Progress(100, 0, 0)
            /\ Len(events[s]) = 2 =>
                events[s][2] = IF failure[s] = "rendering" THEN Error ELSE Complete(<<>>)
            /\ pc[s] = "done" => Len(events[s]) = 2

\* C6 witness: a finished stream over an empty listing.
C6_Witness ==
    \E s \in StreamIds :
        /\ Enumerated(s)
        /\ total_files[s] = 0
        /\ pc[s] = "done"
        /\ events[s] = <<Progress(100, 0, 0), Complete(<<>>)>>

\* C7: a /presentations request on a session without credentials is answered
\* with the 303 redirect to /login whatever its Accept header; the step opens
\* no stream and changes nothing of any stream (no listing, no task, no event).
C7_UnauthenticatedRedirect ==
    [][(/\ ~Truthy(get_credentials_from_session(session))
        /\ NoStreamOpen
        /\ request'.route = "/presentations")
       => (/\ response' = Redirect("/login", 303)
           /\ response'.status # 200
           /\ UNCHANGED stream_vars
           /\ UNCHANGED session)]_vars

\* C7 witness: a request that asked for the event stream and was redirected,
\* on a session that holds a state but no credentials.
C7_Witness ==
    /\ request.route = "/presentations"
    /\ AcceptsEventStream(request.accept)
    /\ response = Redirect("/login", 303)
    /\ "state" \in DOMAIN session
    /\ "credentials" \notin DOMAIN session

\* C8 as stated: an authenticated /presentations request that does not ask for
\* the event stream gets the placeholder page, and nothing of any stream changes.
C8_PlaceholderAsStated ==
    [][(/\ Truthy(get_credentials_from_session(session))
        /\ NoStreamOpen
        /\ request'.route = "/presentations"
        /\ ~AcceptsEventStream(request'.accept))
       => (/\ response' = FileResponse("progress.html")
           /\ UNCHANGED stream_vars)]_vars

\* C8, amended: such a request gets the placeholder page, or the 404 answer
\* when progress.html is not on disk; either way nothing of any stream changes.
C8_NoBatchWithoutEventStream ==
    [][(/\ Truthy(get_credentials_from_session(session))
        /\ NoStreamOpen
        /\ request'.route = "/presentations"
        /\ ~AcceptsEventStream(request'.accept))
       => (/\ response' \in {FileResponse("progress.html"),
                             HttpError(404, "Progress page not found")}
           /\ UNCHANGED stream_vars
           /\ UNCHANGED session)]_vars

\* C8 witness: an authenticated request without Accept header got the page.
C8_Witness ==
    /\ request.route = "/presentations"
    /\ request.accept = {}
    /\ Truthy(get_credentials_from_session(session))
    /\ response = FileResponse("progress.html")

\* C9: the list the complete event carries is the listing: the same records
\* in the same order, each once.
C9_SameItemsSameOrder ==
    \A s \in StreamIds :
        \A k \in DOMAIN events[s] :
            events[s][k].event = "complete" =>
                Identity(events[s][k].presentations) = Identity(listing[s])

\* C9 witness: a complete event after the tasks were reported in the reverse
\* of the listing's order, the first record without thumbnail URL.
C9_Witness ==
    \E s \in StreamIds :
        /\ events[s] # <<>>
        /\ Last(events[s]).event = "complete"
        /\ Len(listing[s]) >= 3
        /\ \A k \in DOMAIN yielded[s] : yielded[s][k] = Len(listing[s]) + 1 - k
        /\ files[s][1].thumbnailUrl = None

\* C10: when the enumeration raised, the error event is the only event; when
\* the rendering raised, the error event follows the N + 1 progress events;
\* there is no complete event in either case.
C10_BatchFailureIsOneError ==
    \A s \in StreamIds :
        LET n == Len(events[s]) IN
        /\ failure[s] = "enumeration" => events[s] = <<Error>>
        /\ failure[s] = "rendering" =>
            /\ n = Len(listing[s]) + 2
            /\ events[s][n] = Error
            /\ \A k \in 1..(n - 1) : events[s][k].event = "progress"

\* C10 witness: the rendering raised after all tasks of a batch were reported.
C10_Witness ==
    \E s \in StreamIds :
        /\ failure[s] = "rendering"
        /\ Len(listing[s]) >= 2
        /\ Last(events[s]) = Error

\* C11: under LiveSpec (every remote call returns or raises, the client keeps
\* consuming) every opened event stream eventually has a terminal event
\* (complete or error) as its last event and has ended.  An opened stream
\* stays opened and an ended stream stays ended, so "eventually ended" is
\* "again and again, no opened stream is short of its end".
C11_StreamEnds ==
    []<>(\A s \in StreamIds :
            pc[s] \notin {"none", "off"} =>
                /\ pc[s] = "done"
                /\ events[s] # <<>>
                /\ Terminal(Last(events[s])))

\* A stream over a full listing ended with complete although one of its tasks
\* raised and another one resolved a preview.
C11_Witness ==
    \E s \in StreamIds :
        /\ pc[s] = "done"
        /\ total_files[s] = MaxFiles
        /\ Last(events[s]).event = "complete"
        /\ \E i, j \in DOMAIN resolution[s] :
              resolution[s][i] = "raised" /\ resolution[s][j] = "url"

\* C12: over /login, /oauth2callback and /logout requests on the session,
\* credentials appear in the session only through an /oauth2callback with an
\* empty error parameter whose state equals the state a /login stored and whose
\* token exchange succeeded (it answers with the redirect to /presentations);
\* a callback with an error parameter, with a state that differs from the
\* stored one (or with no stored state), or with a failing token exchange
\* answers with an error and leaves the session as it was.
C12_CredentialsOnlyByValidCallback ==
    [][NoStreamOpen =>
        LET cb == request'.route = "/oauth2callback"
            accepted == response' = Redirect("/presentations", 307)
        IN  /\ ("credentials" \in DOMAIN session' /\ "credentials" \notin DOMAIN session)
                    => cb /\ accepted
            /\ (cb /\ accepted)
                    => /\ request'.error = ""
                       /\ "state" \in DOMAIN session
                       /\ request'.state = session["state"]
                       /\ session' = SessionSet(session, "credentials", CredentialsDict)
            /\ (cb /\ (\/ request'.error # ""
                        \/ "state" \notin DOMAIN session
                        \/ request'.state # session["state"]
                        \/ response'.kind = "error"))
                    => /\ response'.kind = "error"
                       /\ session' = session
            /\ (cb /\ ~accepted) => response'.kind = "error"]_vars

\* A callback whose state matched the stored one stored the credentials.
C12_Witness ==
    /\ request.route = "/oauth2callback"
    /\ response = Redirect("/presentations", 307)
    /\ "state" \in DOMAIN session
    /\ request.state = session["state"]
    /\ get_credentials_from_session(session) = CredentialsDict
    /\ NoStreamOpen

\* C13: /logout leaves an empty session; on an empty session /presentations is
\* redirected to /login, every /oauth2callback (whatever state it carries) is
\* answered with an error and leaves the session empty, and only /login puts
\* anything into the session again.
C13_LogoutClearsSession ==
    [][NoStreamOpen =>
        /\ request'.route = "/logout" => DOMAIN session' = {}
        /\ DOMAIN session = {} =>
              /\ request'.route = "/presentations" => response' = Redirect("/login", 303)
              /\ request'.route = "/oauth2callback" =>
                    response'.kind = "error" /\ DOMAIN session' = {}
              /\ session' # session => request'.route = "/login"]_vars

\* A logout answered and the session is empty.
C13_Witness ==
    /\ request.route = "/logout"
    /\ response.kind = "json"
    /\ DOMAIN session = {}
    /\ NoStreamOpen

\* C14: the listing a stream works on is the full list of matching remote
\* files, however Drive pages it: total counts all of them and none is left
\* on a page the stream did not read.
C14_FullListing ==
    \A s \in StreamIds :
        Enumerated(s) =>
            /\ total_files[s] = Len(listing[s])
            /\ ~more_pages[s]

WritersOf(s, i) == IF i \in DOMAIN writers[s] THEN writers[s][i] ELSE <<>>

C17_OneWriterAtATime ==
    [][\A s \in StreamIds :
        \A i \in DOMAIN files[s] :
            (i \in DOMAIN files'[s] /\ files'[s][i] # files[s][i]) =>
                /\ writers'[s][i] # writers[s][i]
                /\ \/ /\ writers'[s][i] = Append(writers[s][i], i)
                      /\ futures[s][i].state = "RUNNING"
                      /\ futures'[s][i].state = "FINISHED"
                   \/ /\ writers'[s][i] = Append(writers[s][i], 0)
                      /\ futures[s][i].state = "FINISHED"
                /\ \A j \in DOMAIN files[s] \ {i} : files'[s][j] = files[s][j]]_vars

\* Two records were written by their own tasks and a third one by the
\* coordinator, in a batch whose last file was handed out first.
C17_Witness ==
    \E s \in StreamIds :
        \E i, j, k \in DOMAIN files[s] :
            /\ i # j
            /\ WritersOf(s, i) = <<i>>
            /\ WritersOf(s, j) = <<j>>
            /\ WritersOf(s, k) = <<0>>
            /\ yielded[s] # <<>>
            /\ yielded[s][1] = MaxFiles

\* C18: once the complete event is in the stream, every one of the N tasks
\* has settled (none queued, none running), processed = total = N, and for
\* N > 0 the event right before complete is the progress event with
\* processed = total.
C18_CompleteAfterAllSettled ==
    \A s \in StreamIds :
        \A k \in DOMAIN events[s] :
            events[s][k].event = "complete" =>
                /\ processed_files[s] = total_files[s]
                /\ Len(futures[s]) = total_files[s]
                /\ Settled(s) = DOMAIN futures[s]
                /\ Queued(s) = {} /\ InFlight(s) = {}
                /\ total_files[s] > 0 =>
                      /\ k > 1
                      /\ events[s][k - 1] =
                            Progress(100, total_files[s], total_files[s])

\* complete after a full batch whose tasks settled out of submission order.
C18_Witness ==
    \E s \in StreamIds :
        /\ events[s] # <<>>
        /\ Last(events[s]).event = "complete"
        /\ total_files[s] = MaxFiles
        /\ yielded[s][1] # 1
        /\ Len(events[s]) = MaxFiles + 2

\* C19: for a listing of N > 0 files the first event of the stream is
\* progress with percent 0, processed 0, total N, and while the generator is
\* suspended at that yield no task has been submitted and no Slides call has
\* been issued; tasks and calls exist only in streams that already hold it.
C19_InitialProgressFirst ==
    \A s \in StreamIds :
        /\ (Enumerated(s) /\ total_files[s] > 0) =>
              /\ events[s] # <<>>
              /\ events[s][1] = Progress(0, 0, total_files[s])
        /\ pc[s] = "yield_initial" =>
              /\ events[s] = <<InitialProgress(total_files[s])>>
              /\ futures[s] = <<>>
              /\ calls[s] = <<>>
        /\ futures[s] # <<>> =>
              /\ events[s] # <<>>
              /\ events[s][1] = Progress(0, 0, Len(futures[s]))

\* The generator is suspended at its first yield with a full listing: the 0%
\* event is out and nothing is submitted.
C19_Witness ==
    \E s \in StreamIds :
        /\ pc[s] = "yield_initial"
        /\ total_files[s] = MaxFiles
        /\ events[s] = <<Progress(0, 0, MaxFiles)>>
        /\ futures[s] = <<>>

\* C20: within a batch the calls issued for an item are, in order, at most
\* one presentations().get for the item's id and then at most one
\* getThumbnail for the same id and the non-empty page id the get returned; a
\* record without id gets no call, and no call is issued a second time,
\* whether it failed or not.
C20_NothingRetried ==
    \A s \in StreamIds :
        \A i \in DOMAIN calls[s] :
            LET log == calls[s][i]
                id == files[s][i].id
            IN  /\ Len(log) <= 2
                /\ Len(log) >= 1 =>
                      /\ Truthy(id)
                      /\ log[1] = SlidesCall("get", id, None)
                /\ Len(log) = 2 =>
                      /\ log[2].method = "getThumbnail"
                      /\ log[2].presentationId = id
                      /\ Truthy(log[2].pageObjectId)
                /\ (futures[s][i].state = "FINISHED" /\ Len(log) < 2) =>
                      files[s][i].thumbnailUrl \in {None, Unset}

\* A finished batch: one item's only call was the get (it failed or found no
\* page) and the item stays without preview; another item went through both
\* calls and the second one gave no URL.
C20_Witness ==
    \E s \in StreamIds :
        /\ pc[s] = "yield_complete"
        /\ \E i, j \in DOMAIN calls[s] :
              /\ Len(calls[s][i]) = 1
              /\ files[s][i].thumbnailUrl = None
              /\ Len(calls[s][j]) = 2
              /\ files[s][j].thumbnailUrl = None

\* How often future i of stream s was handed out by as_completed.
TimesHandedOut(s, i) == Cardinality({k \in DOMAIN yielded[s] : yielded[s][k] = i})

C22_CounterIsReportedCompletions ==
    \A s \in StreamIds :
        /\ processed_files[s] = Len(yielded[s])
        /\ ProgressEvents(s) # <<>> =>
              Last(ProgressEvents(s)).processed = processed_files[s]

\* Tasks have finished that the coordinator has not taken yet: the counter
\* is behind the number of settled tasks.
C22_Witness ==
    \E s \in StreamIds :
        /\ processed_files[s] = 1
        /\ Cardinality(Settled(s)) = MaxFiles
        /\ InFlight(s) = {}
        /\ pc[s] = "yield_progress"

\* The generator of stream s was closed at a yield.
Disconnected(s) == pc[s] \in {"closing", "closed"}

\* C23: the step that closes the generator emits nothing, and once the
\* generator is closed the stream's events never change again (no progress,
\* no complete, no error) and the stream stays closed; meanwhile no task is
\* taken back: a queued or running task only moves forward, and the with
\* block is left only when every submitted task has finished.
C23_NothingAfterDisconnect ==
    [][\A s \in StreamIds :
        /\ Disconnected(s)' => (Disconnected(s) \/ pc[s] \in
                {"yield_initial", "yield_progress", "yield_complete", "yield_error"})
        /\ Disconnected(s)' => events'[s] = events[s]
        /\ Disconnected(s) =>
              /\ Disconnected(s)'
              /\ processed_files'[s] = processed_files[s]
              /\ \A i \in DOMAIN futures[s] :
                    \/ futures'[s][i] = futures[s][i]
                    \/ /\ futures[s][i].state = "PENDING"
                       /\ futures'[s][i].state = "RUNNING"
                    \/ /\ futures[s][i].state = "RUNNING"
                       /\ futures'[s][i].state \in {"RUNNING", "FINISHED"}
        /\ (pc[s] = "closing" /\ pc'[s] = "closed") =>
              \A i \in DOMAIN futures[s] : futures[s][i].state = "FINISHED"]_vars

\* The client left after the first completion was reported: the stream holds
\* the two progress events and nothing else, and all tasks of the full batch
\* have finished all the same, one of them with a preview URL.
C23_Witness ==
    \E s \in StreamIds :
        /\ pc[s] = "closed"
        /\ Len(events[s]) = 2
        /\ Last(events[s]).event = "progress"
        /\ Len(futures[s]) = MaxFiles
        /\ Settled(s) = DOMAIN futures[s]
        /\ \E i \in DOMAIN files[s] :
              i \notin HandedOut(s) /\ files[s][i].thumbnailUrl = ContentUrl

\* Everything stream s owns: its generator's position and locals, its
\* records, its pool's futures and its events.
StreamState(s) ==
    <<pc[s], listing[s], files[s], total_files[s], processed_files[s],
      futures[s], yielded[s], events[s], resolution[s], failure[s],
      more_pages[s], calls[s], writers[s]>>

\* C24: with two streams open at the same time, a step that changes what one
\* stream owns (total, counter, records, pool, events) leaves everything the
\* other stream owns as it was, each pool keeps to its own budget, and after
\* every step the progress property (processed grows by one up to total) and
\* the terminal-event property (a terminal event is last) hold for both.
C24_StreamsShareNothing ==
    [][/\ \A s, t \in StreamIds :
            (s # t /\ StreamState(s)' # StreamState(s))
                => StreamState(t)' = StreamState(t)
       /\ \A s \in StreamIds :
            /\ Cardinality(InFlight(s))' <= max_workers
            /\ (processed_files[s] = Len(yielded[s]))'
            /\ (total_files[s] = Len(listing[s]))'
       /\ C1_ProcessedGrowsByOne'
       /\ C2_TerminalEventIsLast']_vars

\* Both streams have a task running at the same moment, each in its own pool
\* and at a different remote call.
C24_Witness ==
    /\ pc[1] = "as_completed" /\ pc[2] = "as_completed"
    /\ InFlight(1) = {1} /\ InFlight(2) = {1}
    /\ futures[1][1].at = "getThumbnail"
    /\ futures[2][1].at = "get"

\* What a line of the file says, read off the line itself: nothing (blank
\* or comment), no "=" at all, or key and value around its first "=".
Content(raw) == Strip(raw, Whitespace)

Ignored(raw) == Content(raw) = <<>> \/ Content(raw)[1] = "#"

WithoutEquals(raw) ==
    ~Ignored(raw) /\ \A k \in DOMAIN Content(raw) : Content(raw)[k] # "="

KeyOf(raw) == Strip(SplitOnce(Content(raw))[1], Whitespace)

ValueOf(raw) ==
    Strip(Strip(Strip(SplitOnce(Content(raw))[2], Whitespace), {"\""}), {"'"})

Defines(raw, key) ==
    ~Ignored(raw) /\ ~WithoutEquals(raw) /\ key # <<>> /\ KeyOf(raw) = key

\* C25: at every point of load_env_file, with applied the lines the loop has
\* gone through: a key some applied line defines maps to the value of the
\* last such line, whatever the environment held before; every other key is
\* as it was before the call, so blank lines and comment lines change
\* nothing; the loop never gets past a line without "=", and when it has
\* raised ValueError it stands at such a line.
C25_LastDefinitionWins ==
    LET applied == SubSeq(dotenv.file, 1, dotenv.at - 1)
        definers(key) == {i \in DOMAIN applied : Defines(applied[i], key)}
        named == {KeyOf(applied[i]) :
                    i \in {j \in DOMAIN applied :
                              ~Ignored(applied[j]) /\ ~WithoutEquals(applied[j])}}
    IN  /\ DOMAIN dotenv.environ = DOMAIN dotenv.initial \cup named
        /\ \A key \in DOMAIN dotenv.environ :
              dotenv.environ[key] =
                  IF definers(key) = {}
                  THEN dotenv.initial[key]
                  ELSE LET last == CHOOSE i \in definers(key) :
                                       \A j \in definers(key) : j <= i
                       IN ValueOf(applied[last])
        /\ \A i \in DOMAIN applied : ~WithoutEquals(applied[i])
        /\ dotenv.raised # "" => dotenv.at <= Len(dotenv.file)
        /\ dotenv.raised = "ValueError" => WithoutEquals(dotenv.file[dotenv.at])
        /\ (dotenv.at <= Len(dotenv.file) /\ dotenv.raised = "OSError")
                => ~WithoutEquals(dotenv.file[dotenv.at])

\* The whole file was applied: its two lines define the same key with
\* different values, the environment held a third value for it before and
\* now holds the second line's, and the key the file does not name is as it
\* was.
C25_Witness ==
    /\ dotenv.raised = ""
    /\ Len(dotenv.file) = MaxLines
    /\ dotenv.at = Len(dotenv.file) + 1
    /\ Defines(dotenv.file[1], <<"A">>)
    /\ Defines(dotenv.file[MaxLines], <<"A">>)
    /\ ValueOf(dotenv.file[1]) # ValueOf(dotenv.file[MaxLines])
    /\ <<"A">> \in DOMAIN dotenv.initial
    /\ dotenv.environ[<<"A">>] = ValueOf(dotenv.file[MaxLines])
    /\ dotenv.environ[<<"A">>] # dotenv.initial[<<"A">>]
    /\ dotenv.environ[<<"H">>] = dotenv.initial[<<"H">>]

\* C26: once a terminal event is in a stream that submitted tasks, none of
\* its tasks is queued or running; in particular an error event emitted after
\* the submission finds every future finished and handed out.
C26_PoolDrainedBeforeTerminal ==
    \A s \in StreamIds :
        \A k \in DOMAIN events[s] :
            (Terminal(events[s][k]) /\ futures[s] # <<>>) =>
                /\ \A i \in DOMAIN futures[s] : futures[s][i].state = "FINISHED"
                /\ events[s][k].event = "error" =>
                      /\ failure[s] = "rendering"
                      /\ Len(yielded[s]) = Len(futures[s])

\* The rendering failed after a full batch: the error event is out and all
\* futures are finished, one of them with an exception.
C26_Witness ==
    \E s \in StreamIds :
        /\ pc[s] = "yield_error"
        /\ Last(events[s]).event = "error"
        /\ Len(futures[s]) = MaxFiles
        /\ \A i \in DOMAIN futures[s] : futures[s][i].state = "FINISHED"
        /\ \E i \in DOMAIN futures[s] : futures[s][i].exception

\* C27: the session holds one OAuth state: a /login puts a state under the
\* one key "state", replacing the one stored before and touching nothing
\* else; a callback is accepted only with the state stored at that moment,
\* with or without credentials already in the session, and accepting it
\* stores the credentials and leaves the stored state as it is, so the same
\* state passes the comparison again.
C27_StateOverwrittenNotConsumed ==
    [][NoStreamOpen =>
        /\ request'.route = "/login" =>
              \E st \in OAuthStates : session' = SessionSet(session, "state", st)
        /\ (request'.route = "/oauth2callback" /\ response'.kind # "error") =>
              /\ "state" \in DOMAIN session
              /\ request'.state = session["state"]
              /\ "state" \in DOMAIN session'
              /\ session'["state"] = session["state"]
              /\ session'["credentials"] = CredentialsDict
              /\ DOMAIN session' = {"state", "credentials"}
        /\ (request'.route = "/oauth2callback" /\ request'.error = ""
                /\ "state" \in DOMAIN session /\ request'.state # session["state"])
              => response' = HttpError(400, "State mismatch")]_vars

\* A callback carrying the second state was accepted, and the state is still
\* in the session next to the credentials.
C27_Witness ==
    /\ NoStreamOpen
    /\ request.route = "/oauth2callback"
    /\ request.state = "s2"
    /\ response = Redirect("/presentations", 307)
    /\ DOMAIN session = {"state", "credentials"}
    /\ session["state"] = "s2"

====
